---------------------------- MODULE Spec2Model ----------------------------
(***************************************************************************)
(* A model of the 3D-earth viewer: the pointer interaction controller of   *)
(* EarthScene.vue (initRaycaster), the region collection assembler         *)
(* (createProvincesFromGeoJson), the region mesh builder of                *)
(* geoDataProcessor.js (createProvinceMeshFromFeature) and the view's      *)
(* lifecycle (onMounted / onUnmounted / animate / initProvinces).          *)
(*                                                                         *)
(* Each part has its own specification (SpecPtr, SpecMesh, SpecAsm,        *)
(* SpecLife); the variables of the other parts are held constant.          *)
(***************************************************************************)
EXTENDS Integers, Sequences, FiniteSets, TLC

VARIABLES
  \* ---- initRaycaster's closure state (EarthScene.vue 229-233)
  isDragging, mouseDownTime, mouseDownPosition, hoveredProvince,
  originalMaterials,
  \* ---- the scene seen by the controller
  material,        \* mesh.material of every region mesh
  now,             \* Date.now()
  routed,          \* the names handed to router.push, oldest first
  \* ---- history of the pointer events (not program state)
  nEvents, pendingDown, movedSinceDown, downAt, downPos, lastUp, wasHovered,
  \* ---- one call of createProvinceMeshFromFeature (geoDataProcessor.js 26-106)
  bFeature,         \* its argument
  bPc,              \* "dispatch", "polygons", "built", "returned"
  bNext,            \* MultiPolygon: the polygons handed to processPolygon so far
  geom3DVertices, geomPositions,
  bWarned,          \* the geometry types console.warn was called with
  bResult,          \* "pending", "null" or "mesh"
  \* ---- initProvinces and createProvincesFromGeoJson (EarthScene.vue 171-223)
  aFeatures,        \* geoJson.features
  aPc,              \* "loop", "returned", "threw", "attached", "failed"
  aIndex,           \* the forEach's index: the features handled so far
  group,            \* the meshes added to the group, in order
  aWarned,          \* the geometry types console.warn was called with
  aThrewAt,         \* the position of the feature that threw, 0 if none
  aAttached,        \* earth.add(provinces) has run
  aLogged,          \* console.error has run
  aRun, aFirst,     \* the number of the run, and the group of the first run
  \* ---- the view's lifecycle (EarthScene.vue 14-30, 171-183, 347-377)
  phase,            \* "created", "mounted", "unmounted"
  animationId,      \* 0 while undefined
  pendingFrames,    \* the handles of the animation-frame callbacks not yet run
  nextHandle,       \* the handle requestAnimationFrame returns next
  disposed,         \* controls.dispose() and renderer.dispose() have run
  rendered,         \* the calls of animate so far
  renderedDisposed, \* animate has used the controls and the renderer after their disposal
  fetch,            \* "none", "pending", "resolved", "threw", "failed"
  provincesOnEarth, \* the region group is a child of the globe
  lPointer          \* the pointer events delivered to the canvas

ptrVars == <<isDragging, mouseDownTime, mouseDownPosition, hoveredProvince,
             originalMaterials, material, now, routed,
             nEvents, pendingDown, movedSinceDown, downAt, downPos, lastUp,
             wasHovered>>

meshVars == <<bFeature, bPc, bNext, geom3DVertices, geomPositions, bWarned, bResult>>

asmVars == <<aFeatures, aPc, aIndex, group, aWarned, aThrewAt, aAttached,
             aLogged, aRun, aFirst>>

lifeVars == <<phase, animationId, pendingFrames, nextHandle, disposed, rendered,
              renderedDisposed, fetch, provincesOnEarth, lPointer>>

vars == <<ptrVars, meshVars, asmVars, lifeVars>>

\* what each part leaves alone
notPtr == <<meshVars, asmVars, lifeVars>>
notMesh == <<ptrVars, asmVars, lifeVars>>
notAsm == <<ptrVars, meshVars, lifeVars>>
notLife == <<ptrVars, meshVars, asmVars>>

(***************************************************************************)
(* Bounds of the model.                                                    *)
(***************************************************************************)
MaxEvents == 4
MaxPolygons == 2
MaxFeatures == 17
MaxPaired == 4
MaxFrames == 5
MaxPointer == 2

(***************************************************************************)
(* The scene: the globe, which is not pickable, and the region meshes.     *)
(***************************************************************************)
Meshes == {"m1", "m2"}
Objects == {"earth"} \cup Meshes
NoMesh == "null"
NoName == "none"

\* userData.isProvince (geoDataProcessor.js 103, EarthScene.vue 216): set on
\* every region mesh, absent on the globe
isProvince(o) == o \in Meshes

\* userData.provinceName (EarthScene.vue 214)
provinceName(o) == IF o = "m1" THEN "Alpha" ELSE "Beta"

\* the palette of createProvincesFromGeoJson
provinceColors ==
  << 16739179, 5164484, 4569041, 9883316, 16698967, 16752627, 5546239,
     6236109, 53971, 16752451, 1092740, 15620644, 10734392, 12862825,
     14254330 >>

\* index of a mesh's feature in the collection
featureIndex(m) == IF m = "m1" THEN 0 ELSE 1

\* the material a region mesh is created with (EarthScene.vue 202-207 on top
\* of geoDataProcessor.js 91-99); gen counts the clone() calls it descends from
createdMaterial(m) ==
  [color |-> provinceColors[(featureIndex(m) % Len(provinceColors)) + 1],
   opacity |-> 70, shininess |-> 30, emissive |-> 0, gen |-> 0]

\* currentHovered.material.clone() with emissive and opacity set
highlightMaterial(mat) ==
  [mat EXCEPT !.emissive = 4473924, !.opacity = 90, !.gen = @ + 1]

(***************************************************************************)
(* Pointer events.  The ray cast depends on the camera and on the globe's  *)
(* rotation, neither of which is modelled: its result is an input of the   *)
(* event, an ordered list of distinct intersected objects, nearest first.  *)
(***************************************************************************)
Positions == { <<100, 100>>, <<103, 104>>, <<104, 100>> }
Deltas == {0, 199, 200}
HitLists ==
  { << >>, <<"earth">>, <<"m1">>, <<"earth", "m1">>, <<"m2", "earth">>,
    <<"m1", "m2">>, <<"m2", "m1">> }

\* Date.now() when the page is loaded; any real clock is far above the 200 ms
\* threshold
Epoch == 1000

RECURSIVE firstProvince(_)
\* the for..of loops of onMouseMove (274-279) and handleValidClick (317-323)
firstProvince(intersects) ==
  IF intersects = <<>> THEN NoMesh
  ELSE IF isProvince(Head(intersects)) THEN Head(intersects)
  ELSE firstProvince(Tail(intersects))

\* Math.sqrt on the integers the model uses, rounded down
ISqrt(n) == CHOOSE k \in 0..n : k * k <= n /\ n < (k + 1) * (k + 1)

\* moveDistance < 5 (EarthScene.vue 244-250); the distance is not an integer
\* in general, but sqrt(n) < 5 iff floor(sqrt(n)) < 5
moveDistanceOk(x, y, down) ==
  ISqrt((x - down[1]) * (x - down[1]) + (y - down[2]) * (y - down[2])) < 5

\* a bug: a click of exactly 200 ms still counts
isValidClick_inclusive(clickDuration, x, y, down, dragging) ==
  clickDuration <= 200 /\ moveDistanceOk(x, y, down) /\ ~dragging

\* the guard of onMouseUp (EarthScene.vue 250)
isValidClick(clickDuration, x, y, down, dragging) ==
  clickDuration < 200 /\ moveDistanceOk(x, y, down) /\ ~dragging

\* the names handleValidClick pushes for a ray cast (EarthScene.vue 305-324)
handleValidClick(intersects) ==
  IF firstProvince(intersects) # NoMesh
    THEN << provinceName(firstProvince(intersects)) >>
    ELSE << >>

\* a bug: a move while the button is down does not mark a drag
dragAfterMove_never(downTime, dragging) == dragging

\* EarthScene.vue 259-261
dragAfterMove(downTime, dragging) == IF downTime > 0 THEN TRUE ELSE dragging

\* a bug: the restored region's entry is left in the map
restoredMap_keep(hp, om) == om

\* EarthScene.vue 284-287: the map after the previously hovered region is restored
restoredMap(hp, om) ==
  IF hp # NoMesh /\ hp \in DOMAIN om
    THEN [m \in DOMAIN om \ {hp} |-> om[m]]
    ELSE om

\* a bug: the previously hovered region keeps its highlight
restoredMaterial_skip(hp, om, mats) == mats

\* EarthScene.vue 284-287: the materials after the previously hovered region is restored
restoredMaterial(hp, om, mats) ==
  IF hp # NoMesh /\ hp \in DOMAIN om
    THEN [mats EXCEPT ![hp] = om[hp]]
    ELSE mats

\* EarthScene.vue 291: originalMaterials.set(currentHovered, currentHovered.material)
savedMap(cur, om, mats) ==
  [m \in DOMAIN om \cup {cur} |-> IF m = cur THEN mats[cur] ELSE om[m]]

\* EarthScene.vue 294-298
highlightedMaterial(cur, mats) ==
  [mats EXCEPT ![cur] = highlightMaterial(mats[cur])]

\* history: what the last event, if a pointer-up, saw and did
NoUp == [isUp |-> FALSE, emitted |-> NoName, pending |-> FALSE, moved |-> FALSE,
         elapsed |-> 0, dist2 |-> 0, dragging |-> FALSE, hits |-> << >>]

(***************************************************************************)
(* The region mesh builder, geoDataProcessor.js.  Lengths are in           *)
(* hundredths; longitudes and latitudes are multiples of 90 degrees, where *)
(* the sines and cosines are integers.                                     *)
(***************************************************************************)
Radius == 200
Elevation == 2

\* Math.sin and Math.cos of a multiple of 90 degrees in 0..360
SinDeg(a) == CASE a % 360 = 0 -> 0 [] a % 360 = 90 -> 1
               [] a % 360 = 180 -> 0 [] a % 360 = 270 -> -1
CosDeg(a) == CASE a % 360 = 0 -> 1 [] a % 360 = 90 -> 0
               [] a % 360 = 180 -> -1 [] a % 360 = 270 -> 0

\* geoDataProcessor.js 9-18
lonLatToCartesian(lon, lat, radius) ==
  LET phi == 90 - lat
      theta == lon + 180
  IN << (0 - (SinDeg(phi) * CosDeg(theta))) * radius,
        CosDeg(phi) * radius,
        SinDeg(phi) * SinDeg(theta) * radius >>

RECURSIVE ConcatAll(_)
\* the concatenation of a sequence of sequences (nested forEach / push(...))
ConcatAll(ss) == IF ss = << >> THEN << >> ELSE Head(ss) \o ConcatAll(Tail(ss))

\* flat2D after the rings.forEach of 39-51: lon, lat of every point, ring by ring
flat2DOf(rings) ==
  ConcatAll([r \in 1..Len(rings) |->
               ConcatAll([c \in 1..Len(rings[r]) |-> rings[r][c]])])

\* holeIndices after the rings.forEach of 39-51
holeIndicesOf(rings) ==
  [h \in 1..(Len(rings) - 1) |->
     Len(flat2DOf(SubSeq(rings, 1, h))) \div 2]

\* the 3D points the rings.forEach of 39-51 pushes on geom3DVertices
projected(rings, radius, elevation) ==
  ConcatAll([r \in 1..Len(rings) |->
               [c \in 1..Len(rings[r]) |->
                  lonLatToCartesian(rings[r][c][1], rings[r][c][2],
                                    radius + elevation)]])

\* the earcut library (imported on line 3, called on line 54) is not part of
\* the repository.  It returns a flat array of indices into the points of
\* flat2D, three per triangle; here a fan around point 0, nothing below
\* three points.
earcut(flat2D, holeIndices, dim) ==
  LET n == Len(flat2D) \div dim
  IN IF n < 3 THEN << >>
     ELSE ConcatAll([i \in 1..(n - 2) |-> <<0, i, i + 1>>])

\* geoDataProcessor.js 56-67: the positions pushed for the triangles
trianglePositions(triangles, vertices) ==
  ConcatAll([t \in 1..(Len(triangles) \div 3) |->
               vertices[triangles[3 * t - 2] + 1]
               \o vertices[triangles[3 * t - 1] + 1]
               \o vertices[triangles[3 * t] + 1]])

\* geoDataProcessor.js 34-68: <<geom3DVertices, geomPositions>> after one call
processPolygon(rings, radius, elevation, g3d, gp) ==
  LET vertices == g3d \o projected(rings, radius, elevation)
      triangles == earcut(flat2DOf(rings), holeIndicesOf(rings), 2)
  IN << vertices, gp \o trianglePositions(triangles, vertices) >>

\* the rings and polygons of the model's features
RingA == << <<0, 0>>, <<90, 0>>, <<0, 90>> >>
RingB == << <<-90, 0>>, <<0, -90>>, <<-180, 0>> >>
RingQ == << <<-90, 0>>, <<0, 0>>, <<0, 90>>, <<-90, 90>> >>
RingShort == << <<0, 0>>, <<90, 0>> >>
Polygons == { <<RingA>>, <<RingB>>, <<RingQ>>, <<RingQ, RingA>>, <<RingShort>> }

PolygonLists == UNION { [1..n -> Polygons] : n \in 1..MaxPolygons }

Geometries ==
  [type : {"Polygon"}, coordinates : Polygons]
  \cup [type : {"MultiPolygon"}, coordinates : PolygonLists]
  \cup [type : {"Point"}, coordinates : { <<90, 0>> }]

NoFeature == [type |-> "none", coordinates |-> << >>]

\* no call of the builder is in progress
IdleMesh ==
  /\ bFeature = NoFeature
  /\ bPc = "idle"
  /\ bNext = 0
  /\ geom3DVertices = << >>
  /\ geomPositions = << >>
  /\ bWarned = << >>
  /\ bResult = "pending"

\* geoDataProcessor.js 26-31
InitMesh ==
  /\ bFeature \in Geometries
  /\ bPc = "dispatch"
  /\ bNext = 0
  /\ geom3DVertices = << >>
  /\ geomPositions = << >>
  /\ bWarned = << >>
  /\ bResult = "pending"

\* geoDataProcessor.js 71-72
BuildPolygon ==
  /\ bPc = "dispatch"
  /\ bFeature.type = "Polygon"
  /\ LET r == processPolygon(bFeature.coordinates, Radius, Elevation,
                             geom3DVertices, geomPositions)
     IN geom3DVertices' = r[1] /\ geomPositions' = r[2]
  /\ bPc' = "built"
  /\ UNCHANGED <<bFeature, bNext, bWarned, bResult>>
  /\ UNCHANGED notMesh

\* geoDataProcessor.js 73-76: one turn of the forEach
BuildNextPolygon ==
  /\ bPc = "dispatch"
  /\ bFeature.type = "MultiPolygon"
  /\ bNext < Len(bFeature.coordinates)
  /\ LET r == processPolygon(bFeature.coordinates[bNext + 1], Radius, Elevation,
                             geom3DVertices, geomPositions)
     IN geom3DVertices' = r[1] /\ geomPositions' = r[2]
  /\ bNext' = bNext + 1
  /\ UNCHANGED <<bFeature, bPc, bWarned, bResult>>
  /\ UNCHANGED notMesh

\* geoDataProcessor.js 73-76: the forEach is over
BuildPolygonsDone ==
  /\ bPc = "dispatch"
  /\ bFeature.type = "MultiPolygon"
  /\ bNext = Len(bFeature.coordinates)
  /\ bPc' = "built"
  /\ UNCHANGED <<bFeature, bNext, geom3DVertices, geomPositions, bWarned, bResult>>
  /\ UNCHANGED notMesh

\* geoDataProcessor.js 77-79
WarnUnsupported ==
  /\ bPc = "dispatch"
  /\ bFeature.type \notin {"Polygon", "MultiPolygon"}
  /\ bWarned' = Append(bWarned, bFeature.type)
  /\ bPc' = "built"
  /\ UNCHANGED <<bFeature, bNext, geom3DVertices, geomPositions, bResult>>
  /\ UNCHANGED notMesh

\* geoDataProcessor.js 81-105
ReturnMesh ==
  /\ bPc = "built"
  /\ bResult' = IF Len(geomPositions) = 0 THEN "null" ELSE "mesh"
  /\ bPc' = "returned"
  /\ UNCHANGED <<bFeature, bNext, geom3DVertices, geomPositions, bWarned>>
  /\ UNCHANGED notMesh

IdlePtr ==
  /\ isDragging = FALSE
  /\ mouseDownTime = 0
  /\ mouseDownPosition = <<0, 0>>
  /\ hoveredProvince = NoMesh
  /\ originalMaterials = << >>
  /\ material = [m \in Meshes |-> createdMaterial(m)]
  /\ now = Epoch
  /\ routed = << >>
  /\ nEvents = 0
  /\ pendingDown = FALSE
  /\ movedSinceDown = FALSE
  /\ downAt = 0
  /\ downPos = <<0, 0>>
  /\ lastUp = NoUp
  /\ wasHovered = {}

(***************************************************************************)
(* The region collection assembler, EarthScene.vue 171-223, on top of      *)
(* createProvinceMeshFromFeature as a whole.                               *)
(***************************************************************************)

RECURSIVE processPolygons(_, _, _, _, _)
\* geoDataProcessor.js 74-76: the forEach over a MultiPolygon's polygons
processPolygons(polygons, radius, elevation, g3d, gp) ==
  IF polygons = << >> THEN << g3d, gp >>
  ELSE LET r == processPolygon(Head(polygons), radius, elevation, g3d, gp)
       IN processPolygons(Tail(polygons), radius, elevation, r[1], r[2])

\* geoDataProcessor.js 29-79: geomPositions after the dispatch on the type
builtPositions(geometry, radius, elevation) ==
  IF geometry.type = "Polygon"
    THEN processPolygon(geometry.coordinates, radius, elevation, << >>, << >>)[2]
  ELSE IF geometry.type = "MultiPolygon"
    THEN processPolygons(geometry.coordinates, radius, elevation, << >>, << >>)[2]
  ELSE << >>

NullMesh == [positions |-> << >>, material |-> << >>, userData |-> << >>]

\* a bug: an unsupported geometry type is an exception, not a warning
createProvinceMeshFromFeature_throws(feature, options) ==
  IF ~feature.hasGeometry \/ feature.geometry.type \notin {"Polygon", "MultiPolygon"}
    THEN [threw |-> TRUE, warned |-> << >>, isNull |-> TRUE, mesh |-> NullMesh]
    ELSE LET positions == builtPositions(feature.geometry, options.radius,
                                         options.elevation)
         IN [threw |-> FALSE,
             warned |-> << >>,
             isNull |-> Len(positions) = 0,
             mesh |-> IF Len(positions) = 0 THEN NullMesh
                      ELSE [positions |-> positions,
                            material |-> [color |-> options.materialOptions.color,
                                          opacity |-> options.materialOptions.opacity,
                                          shininess |-> options.materialOptions.shininess,
                                          emissive |-> 0, gen |-> 0],
                            userData |-> [name |-> feature.name,
                                          adcode |-> feature.adcode,
                                          isProvince |-> TRUE]]]

\* geoDataProcessor.js 26-106.  Reading feature.geometry.type of a feature
\* without a geometry throws (line 70); feature.properties may be absent
\* (line 103).
createProvinceMeshFromFeature(feature, options) ==
  IF ~feature.hasGeometry
    THEN [threw |-> TRUE, warned |-> << >>, isNull |-> TRUE, mesh |-> NullMesh]
    ELSE LET positions == builtPositions(feature.geometry, options.radius,
                                         options.elevation)
         IN [threw |-> FALSE,
             warned |-> IF feature.geometry.type \in {"Polygon", "MultiPolygon"}
                          THEN << >> ELSE << feature.geometry.type >>,
             isNull |-> Len(positions) = 0,
             mesh |-> IF Len(positions) = 0 THEN NullMesh
                      ELSE [positions |-> positions,
                            material |-> [color |-> options.materialOptions.color,
                                          opacity |-> options.materialOptions.opacity,
                                          shininess |-> options.materialOptions.shininess,
                                          emissive |-> 0, gen |-> 0],
                            userData |-> [name |-> feature.name,
                                          adcode |-> feature.adcode,
                                          isProvince |-> TRUE]]]

\* a bug: the palette is indexed from 1
colorIndex_shifted(index) == (index + 1) % Len(provinceColors)

\* EarthScene.vue 196
colorIndex(index) == index % Len(provinceColors)

\* EarthScene.vue 199-210: the options handed to the builder
meshOptions(index) ==
  [radius |-> Radius, elevation |-> Elevation,
   materialOptions |-> [color |-> provinceColors[colorIndex(index) + 1],
                        opacity |-> 70, shininess |-> 30]]

\* EarthScene.vue 213-217
withProvinceData(mesh, feature) ==
  [mesh EXCEPT !.userData =
     [name |-> mesh.userData.name, adcode |-> feature.adcode,
      provinceName |-> feature.name, isProvince |-> TRUE]]

\* the features of the model: position i of a collection holds a Polygon
\* (i odd) or a MultiPolygon (i even), but for one position, which may hold a
\* feature of another kind, or for two positions in the collections of at
\* most MaxPaired features
SpecialKinds == {"Point", "NoProperties", "NoGeometry", "Short"}

regularGeometry(i) ==
  IF i % 2 = 1 THEN [type |-> "Polygon", coordinates |-> <<RingA>>]
  ELSE [type |-> "MultiPolygon", coordinates |-> << <<RingB>>, <<RingQ>> >>]

featureAt(i, kind) ==
  [hasProperties |-> kind # "NoProperties",
   name |-> 100 + i,
   adcode |-> i,
   hasGeometry |-> kind # "NoGeometry",
   geometry |->
     IF kind = "Point" THEN [type |-> "Point", coordinates |-> <<90, 0>>]
     ELSE IF kind = "Short" THEN [type |-> "Polygon", coordinates |-> <<RingShort>>]
     ELSE regularGeometry(i)]

Collections ==
  { [i \in 1..n |-> featureAt(i, "Regular")] : n \in 1..MaxFeatures }
  \cup UNION { { [i \in 1..n |-> featureAt(i, IF i = s THEN k ELSE "Regular")]
                   : s \in 1..n, k \in SpecialKinds } : n \in 1..MaxFeatures }
  \cup UNION { { [i \in 1..n |-> featureAt(i, IF i = p[1] THEN k1
                                               ELSE IF i = p[2] THEN k2
                                               ELSE "Regular")]
                   : p \in { q \in (1..n) \X (1..n) : q[1] < q[2] },
                     k1 \in SpecialKinds, k2 \in SpecialKinds }
                : n \in 2..MaxPaired }

\* the component is set up and not mounted yet (EarthScene.vue 12-14)
IdleLife ==
  /\ phase = "created"
  /\ animationId = 0
  /\ pendingFrames = {}
  /\ nextHandle = 1
  /\ disposed = FALSE
  /\ rendered = 0
  /\ renderedDisposed = FALSE
  /\ fetch = "none"
  /\ provincesOnEarth = FALSE
  /\ lPointer = 0

\* createProvincesFromGeoJson has not been called
IdleAsm ==
  /\ aFeatures = << >>
  /\ aPc = "idle"
  /\ aIndex = 0
  /\ group = << >>
  /\ aWarned = << >>
  /\ aThrewAt = 0
  /\ aAttached = FALSE
  /\ aLogged = FALSE
  /\ aRun = 0
  /\ aFirst = << >>

\* EarthScene.vue 174-178, 186: the document is fetched and the group is new
InitAsm ==
  /\ aFeatures \in Collections
  /\ aPc = "loop"
  /\ aIndex = 0
  /\ group = << >>
  /\ aWarned = << >>
  /\ aThrewAt = 0
  /\ aAttached = FALSE
  /\ aLogged = FALSE
  /\ aRun = 1
  /\ aFirst = << >>

\* EarthScene.vue 194-220: one turn of the forEach
AssembleFeature ==
  /\ aPc = "loop"
  /\ aIndex < Len(aFeatures)
  /\ LET feature == aFeatures[aIndex + 1]
         built == createProvinceMeshFromFeature(feature, meshOptions(aIndex))
         threw == ~feature.hasProperties \/ built.threw
     IN /\ aPc' = IF threw THEN "threw" ELSE "loop"
        /\ aThrewAt' = IF threw THEN aIndex + 1 ELSE aThrewAt
        /\ aIndex' = IF threw THEN aIndex ELSE aIndex + 1
        /\ aWarned' = IF feature.hasProperties THEN aWarned \o built.warned
                      ELSE aWarned
        /\ group' = IF ~threw /\ ~built.isNull
                      THEN Append(group, withProvinceData(built.mesh, feature))
                      ELSE group
  /\ UNCHANGED <<aFeatures, aAttached, aLogged, aRun, aFirst>>
  /\ UNCHANGED notAsm

\* EarthScene.vue 222
AssembleReturn ==
  /\ aPc = "loop"
  /\ aIndex = Len(aFeatures)
  /\ aPc' = "returned"
  /\ UNCHANGED <<aFeatures, aIndex, group, aWarned, aThrewAt, aAttached, aLogged,
                 aRun, aFirst>>
  /\ UNCHANGED notAsm

\* EarthScene.vue 179
AttachProvinces ==
  /\ aPc = "returned"
  /\ aAttached' = TRUE
  /\ aPc' = "attached"
  /\ UNCHANGED <<aFeatures, aIndex, group, aWarned, aThrewAt, aLogged, aRun, aFirst>>
  /\ UNCHANGED notAsm

\* EarthScene.vue 180-182
CatchError ==
  /\ aPc = "threw"
  /\ aLogged' = TRUE
  /\ aPc' = "failed"
  /\ UNCHANGED <<aFeatures, aIndex, group, aWarned, aThrewAt, aAttached, aRun, aFirst>>
  /\ UNCHANGED notAsm

\* EarthScene.vue 185-186: the same collection is assembled once more
AssembleAgain ==
  /\ aPc = "attached"
  /\ aRun = 1
  /\ aRun' = 2
  /\ aFirst' = group
  /\ group' = << >>
  /\ aIndex' = 0
  /\ aWarned' = << >>
  /\ aAttached' = FALSE
  /\ aPc' = "loop"
  /\ UNCHANGED <<aFeatures, aThrewAt, aLogged>>
  /\ UNCHANGED notAsm

NextAsm ==
  AssembleFeature \/ AssembleReturn \/ AttachProvinces \/ CatchError
    \/ AssembleAgain

\* the assembly of any collection of the model
InitAssembler == IdlePtr /\ IdleMesh /\ InitAsm /\ IdleLife

SpecAsm == InitAssembler /\ [][NextAsm]_vars

NextMesh ==
  BuildPolygon \/ BuildNextPolygon \/ BuildPolygonsDone \/ WarnUnsupported
    \/ ReturnMesh

\* one call of the builder, on any geometry of the model
InitBuilder == IdlePtr /\ InitMesh /\ IdleAsm /\ IdleLife

SpecMesh == InitBuilder /\ [][NextMesh]_vars


(***************************************************************************)
(* The view's lifecycle: onMounted, onUnmounted, the render loop and the   *)
(* fetch of the regions.  Everything runs on the one UI thread: a handler  *)
(* runs to its end, or to its next await, before another starts.           *)
(***************************************************************************)

\* a bug: only the first handle is kept
animationIdAfter_first(old, handle) == IF old = 0 THEN handle ELSE old

\* EarthScene.vue 348: animationId = requestAnimationFrame(animate)
animationIdAfter(old, handle) == handle

\* EarthScene.vue 347-377: one call of animate, the callbacks in `queue`
\* still waiting
animate(queue) ==
  /\ animationId' = animationIdAfter(animationId, nextHandle)
  /\ pendingFrames' = queue \cup {nextHandle}
  /\ nextHandle' = nextHandle + 1
  /\ rendered' = rendered + 1
  /\ renderedDisposed' = IF disposed THEN TRUE ELSE renderedDisposed

\* EarthScene.vue 16-24: initProvinces runs up to its first await, animate
\* is called once
Mounted ==
  /\ phase = "created"
  /\ phase' = "mounted"
  /\ fetch' = "pending"
  /\ animate(pendingFrames)
  /\ UNCHANGED <<disposed, provincesOnEarth, lPointer>>
  /\ UNCHANGED notLife

\* the browser runs a waiting animation-frame callback
AnimationFrame ==
  /\ rendered < MaxFrames
  /\ \E h \in pendingFrames : animate(pendingFrames \ {h})
  /\ UNCHANGED <<phase, disposed, fetch, provincesOnEarth, lPointer>>
  /\ UNCHANGED notLife

\* EarthScene.vue 26-30
Unmounted ==
  /\ phase = "mounted"
  /\ pendingFrames' = pendingFrames \ {animationId}
  /\ disposed' = TRUE
  /\ phase' = "unmounted"
  /\ UNCHANGED <<animationId, nextHandle, rendered, renderedDisposed, fetch,
                 provincesOnEarth, lPointer>>
  /\ UNCHANGED notLife

\* EarthScene.vue 174-179: the document arrives; the group is built and
\* added to the globe unless the assembly throws (180-182)
FetchResolved ==
  /\ fetch = "pending"
  /\ \E assembled \in BOOLEAN :
       /\ fetch' = IF assembled THEN "resolved" ELSE "threw"
       /\ provincesOnEarth' = assembled
  /\ UNCHANGED <<phase, animationId, pendingFrames, nextHandle, disposed, rendered,
                 renderedDisposed, lPointer>>
  /\ UNCHANGED notLife

\* EarthScene.vue 174-175, 180-182: the fetch or the parse fails
FetchRejected ==
  /\ fetch = "pending"
  /\ fetch' = "failed"
  /\ UNCHANGED <<phase, animationId, pendingFrames, nextHandle, disposed, rendered,
                 renderedDisposed, provincesOnEarth, lPointer>>
  /\ UNCHANGED notLife

\* EarthScene.vue 326-329: a pointer event on the canvas of the mounted
\* view; its handlers leave the lifecycle's state alone
PointerEvent ==
  /\ phase = "mounted"
  /\ lPointer < MaxPointer
  /\ lPointer' = lPointer + 1
  /\ UNCHANGED <<phase, animationId, pendingFrames, nextHandle, disposed, rendered,
                 renderedDisposed, fetch, provincesOnEarth>>
  /\ UNCHANGED notLife

NextLife ==
  Mounted \/ AnimationFrame \/ Unmounted \/ FetchResolved \/ FetchRejected
    \/ PointerEvent

\* the component before it is mounted
InitView == IdlePtr /\ IdleMesh /\ IdleAsm /\ IdleLife

SpecLife == InitView /\ [][NextLife]_vars

\* EarthScene.vue 225-233
InitPtr == IdlePtr /\ IdleMesh /\ IdleAsm /\ IdleLife

\* EarthScene.vue 235-240
onMouseDown(pos, dt) ==
  /\ nEvents < MaxEvents
  /\ now' = now + dt
  /\ isDragging' = FALSE
  /\ mouseDownTime' = now'
  /\ mouseDownPosition' = pos
  /\ UNCHANGED <<hoveredProvince, originalMaterials, material, routed, wasHovered>>
  /\ nEvents' = nEvents + 1
  /\ pendingDown' = TRUE
  /\ movedSinceDown' = FALSE
  /\ downAt' = now'
  /\ downPos' = pos
  /\ lastUp' = NoUp

\* EarthScene.vue 242-256
onMouseUp(pos, dt, intersects) ==
  /\ nEvents < MaxEvents
  /\ now' = now + dt
  /\ LET clickDuration == now' - mouseDownTime
         pushed == IF isValidClick(clickDuration, pos[1], pos[2],
                                   mouseDownPosition, isDragging)
                     THEN handleValidClick(intersects)
                     ELSE << >>
     IN /\ routed' = routed \o pushed
        /\ lastUp' = [isUp |-> TRUE,
                      emitted |-> IF pushed = << >> THEN NoName ELSE pushed[1],
                      pending |-> pendingDown,
                      moved |-> movedSinceDown,
                      elapsed |-> now' - downAt,
                      dist2 |-> (pos[1] - downPos[1]) * (pos[1] - downPos[1])
                                + (pos[2] - downPos[2]) * (pos[2] - downPos[2]),
                      dragging |-> isDragging,
                      hits |-> intersects]
  /\ mouseDownTime' = 0
  /\ isDragging' = FALSE
  /\ UNCHANGED <<mouseDownPosition, hoveredProvince, originalMaterials, material,
                 wasHovered, downAt, downPos>>
  /\ nEvents' = nEvents + 1
  /\ pendingDown' = FALSE
  /\ movedSinceDown' = FALSE

\* EarthScene.vue 258-303
onMouseMove(dt, intersects) ==
  /\ nEvents < MaxEvents
  /\ now' = now + dt
  /\ isDragging' = dragAfterMove(mouseDownTime, isDragging)
  /\ LET currentHovered == firstProvince(intersects)
         om1 == restoredMap(hoveredProvince, originalMaterials)
         mat1 == restoredMaterial(hoveredProvince, originalMaterials, material)
     IN IF currentHovered # hoveredProvince
          THEN /\ originalMaterials' =
                    IF currentHovered # NoMesh
                      THEN savedMap(currentHovered, om1, mat1) ELSE om1
               /\ material' =
                    IF currentHovered # NoMesh
                      THEN highlightedMaterial(currentHovered, mat1) ELSE mat1
               /\ hoveredProvince' = currentHovered
               /\ wasHovered' =
                    IF currentHovered # NoMesh
                      THEN wasHovered \cup {currentHovered} ELSE wasHovered
          ELSE UNCHANGED <<originalMaterials, material, hoveredProvince, wasHovered>>
  /\ UNCHANGED <<mouseDownTime, mouseDownPosition, routed, downAt, downPos>>
  /\ nEvents' = nEvents + 1
  /\ movedSinceDown' = pendingDown
  /\ UNCHANGED pendingDown
  /\ lastUp' = NoUp

PointerDown ==
  /\ \E pos \in Positions, dt \in Deltas : onMouseDown(pos, dt)
  /\ UNCHANGED notPtr
PointerUp ==
  /\ \E pos \in Positions, dt \in Deltas, hits \in HitLists : onMouseUp(pos, dt, hits)
  /\ UNCHANGED notPtr
PointerMove ==
  /\ \E dt \in Deltas, hits \in HitLists : onMouseMove(dt, hits)
  /\ UNCHANGED notPtr

NextPtr == PointerDown \/ PointerUp \/ PointerMove

SpecPtr == InitPtr /\ [][NextPtr]_vars

(***************************************************************************)
(* The claims about the pointer interaction controller (SpecPtr).          *)
(***************************************************************************)

\* C2: after every pointer event the saved-original-material map has at most
\* one entry, it has an entry for a mesh iff that mesh is the hovered region,
\* and it is empty when nothing is hovered.
C2_HoverMapInvariant ==
  /\ Cardinality(DOMAIN originalMaterials) <= 1
  /\ \A m \in Meshes : m \in DOMAIN originalMaterials <=> m = hoveredProvince
  /\ hoveredProvince = NoMesh => DOMAIN originalMaterials = {}

\* the hover has moved from one region to another
C2_Witness ==
  /\ hoveredProvince = "m2"
  /\ "m1" \in wasHovered
  /\ DOMAIN originalMaterials = {"m2"}

\* the index of the first pickable object of a ray cast, 0 when there is none
FirstPickableIndex(hits) ==
  IF \E i \in DOMAIN hits : hits[i] \in Meshes
    THEN CHOOSE i \in DOMAIN hits :
           hits[i] \in Meshes /\ \A j \in 1..(i - 1) : hits[j] \notin Meshes
    ELSE 0

\* the conditions the claim C3 gives for the pointer-up just handled
ClaimedValid ==
  /\ lastUp.pending
  /\ lastUp.elapsed < 200
  /\ lastUp.dist2 < 5 * 5
  /\ ~lastUp.dragging
  /\ FirstPickableIndex(lastUp.hits) # 0

\* C3: a pointer-up emits a selection iff a pointer-down is pending, less
\* than 200 ms have passed since it, the pointer is less than 5 away from the
\* down position, isDragging is false and the ray cast at the up position
\* hits a pickable region; the event carries the name of the first pickable
\* hit.  A pointer-up with no pending pointer-down emits nothing.
C3_ClickSelection ==
  lastUp.isUp =>
    /\ lastUp.emitted # NoName <=> ClaimedValid
    /\ ClaimedValid =>
         lastUp.emitted = provinceName(lastUp.hits[FirstPickableIndex(lastUp.hits)])
    /\ ~lastUp.pending => lastUp.emitted = NoName

\* a click after 199 ms, 4 away from the down position, with the globe in
\* front of the region
C3_Witness ==
  /\ lastUp.isUp
  /\ lastUp.emitted = "Alpha"
  /\ lastUp.hits = <<"earth", "m1">>
  /\ lastUp.elapsed = 199
  /\ lastUp.dist2 = 16
  /\ routed # << >>

C5_MaterialsRestored ==
  \A m \in Meshes :
    IF m = hoveredProvince
      THEN /\ material[m].gen = 1
           /\ material[m].emissive = 4473924
           /\ material[m].opacity = 90
           /\ material[m].color = createdMaterial(m).color
           /\ material[m].shininess = createdMaterial(m).shininess
      ELSE material[m] = createdMaterial(m)

\* a region that was highlighted is no longer hovered, and another one is
C5_Witness ==
  /\ hoveredProvince = "m1"
  /\ "m2" \in wasHovered
  /\ material["m2"] = createdMaterial("m2")
  /\ material["m1"].gen = 1

(***************************************************************************)
(* The claim about the region mesh builder (SpecMesh).                     *)
(***************************************************************************)

\* the vertex buffer of a Polygon feature made of these rings alone
BuiltAlone(rings) == processPolygon(rings, Radius, Elevation, << >>, << >>)[2]

\* C1: the vertex buffer built for a MultiPolygon feature is the
\* concatenation, in polygon order, of the buffers each of its polygons gets
\* when built on its own as a Polygon feature.
C1_MultiPolygonConcat ==
  bPc = "returned" /\ bFeature.type = "MultiPolygon" =>
    geomPositions =
      ConcatAll([i \in 1..Len(bFeature.coordinates) |->
                   BuiltAlone(bFeature.coordinates[i])])

(***************************************************************************)
(* The claims about the region collection assembler (SpecAsm).             *)
(***************************************************************************)

\* a feature that can be read and whose geometry gives at least one triangle
YieldsMesh(f) ==
  /\ f.hasProperties
  /\ f.hasGeometry
  /\ \/ /\ f.geometry.type = "Polygon"
        /\ Len(ConcatAll(f.geometry.coordinates)) >= 3
     \/ /\ f.geometry.type = "MultiPolygon"
        /\ \E q \in DOMAIN f.geometry.coordinates :
             Len(ConcatAll(f.geometry.coordinates[q])) >= 3

\* a feature that can be read and whose geometry type is not supported
Unsupported(f) ==
  /\ f.hasProperties
  /\ f.hasGeometry
  /\ f.geometry.type \notin {"Polygon", "MultiPolygon"}

\* the positions of the features that yield a mesh, in collection order
YieldingPositions == { i \in DOMAIN aFeatures : YieldsMesh(aFeatures[i]) }

\* the group holds a mesh made from the feature at position i
InGroup(i) == \E k \in DOMAIN group : group[k].userData.adcode = aFeatures[i].adcode

\* the assembly of the collection is over, one way or the other
AssemblyOver == aPc \in {"attached", "failed"}

\* C6: a failure while processing one feature does not abort the others:
\* every other feature that yields a mesh is built and added, and the group
\* is attached to the globe.
C6_FailureIsLocal ==
  AssemblyOver /\ YieldingPositions # {} =>
    /\ aAttached
    /\ \A i \in YieldingPositions : InGroup(i)

\* the properties and the geometry of every feature can be read
AllReadable ==
  \A j \in DOMAIN aFeatures : aFeatures[j].hasProperties /\ aFeatures[j].hasGeometry

\* C7: a feature of an unsupported geometry type is not what makes the
\* assembly throw; once the forEach is past it there is a warning for it and
\* no mesh of it in the group, and every later feature that yields a mesh and
\* that the forEach is past is in the group; the group that is attached
\* holds every later feature that yields a mesh, and a collection whose
\* features can all be read is assembled to the end and attached.
C7_UnsupportedSkipped ==
  \A i \in DOMAIN aFeatures :
    Unsupported(aFeatures[i]) =>
      /\ aThrewAt # i
      /\ aIndex >= i =>
           /\ Len(aWarned) =
                Cardinality({ j \in 1..aIndex : Unsupported(aFeatures[j]) })
           /\ \E w \in DOMAIN aWarned : aWarned[w] = aFeatures[i].geometry.type
           /\ ~InGroup(i)
           /\ \A j \in (i + 1)..aIndex : YieldsMesh(aFeatures[j]) => InGroup(j)
      /\ aAttached =>
           \A j \in (i + 1)..Len(aFeatures) : YieldsMesh(aFeatures[j]) => InGroup(j)
      /\ AssemblyOver /\ AllReadable => aAttached

\* a Point feature in the middle of an attached collection, with meshes of
\* earlier and of later features around it
C7_Witness ==
  /\ aPc = "attached"
  /\ \E i \in DOMAIN aFeatures :
       /\ Unsupported(aFeatures[i])
       /\ 1 < i /\ i + 1 < Len(aFeatures)
       /\ InGroup(i - 1) /\ InGroup(i + 1) /\ InGroup(Len(aFeatures))
       /\ Len(group) = Len(aFeatures) - 1

\* the position of the k-th feature that yields a mesh
KthYielding(k) ==
  CHOOSE i \in YieldingPositions :
    Cardinality({ j \in YieldingPositions : j <= i }) = k

\* C9: the group returned holds exactly one mesh per feature that yields a
\* mesh, in collection order, the mesh of the feature at 0-based position p
\* having the color palette[p mod paletteSize]; a second assembly of the same
\* collection gives the same group.
C9_PaletteByPosition ==
  aPc \in {"returned", "attached"} =>
    /\ Len(group) = Cardinality(YieldingPositions)
    /\ \A k \in DOMAIN group :
         /\ group[k].userData.adcode = aFeatures[KthYielding(k)].adcode
         /\ group[k].userData.provinceName = aFeatures[KthYielding(k)].name
         /\ group[k].material.color =
              provinceColors[((KthYielding(k) - 1) % 15) + 1]
    /\ aRun = 2 => group = aFirst

\* a second assembly of a collection of more than 15 features, one of them
\* skipped: the 16th feature has the first color again
C9_Witness ==
  /\ aPc = "returned"
  /\ aRun = 2
  /\ Len(aFeatures) >= 16
  /\ Len(group) = Len(aFeatures) - 1
  /\ \E k \in DOMAIN group :
       /\ group[k].userData.adcode = 16
       /\ group[k].material.color = provinceColors[1]
       /\ k = 15

(***************************************************************************)
(* The claims about the view's lifecycle (SpecLife).                       *)
(***************************************************************************)

\* C8: teardown cancels the pending animation-frame callback before it
\* disposes of the controls and the renderer, and animationId names the one
\* callback that is pending: no call of animate runs after the disposal.
C8_NoFrameAfterTeardown ==
  /\ phase = "mounted" => pendingFrames = {animationId}
  /\ disposed => pendingFrames = {}
  /\ ~renderedDisposed

\* the view is torn down after several frames, with pointer events in between
C8_Witness ==
  /\ phase = "unmounted"
  /\ disposed
  /\ rendered >= 3
  /\ lPointer >= 1
  /\ pendingFrames = {}

\* C10: region meshes are attached to the globe only while the view is
\* mounted: after the teardown no region group is on the globe, whether the
\* fetch resolved before it or after it.
C10_RegionsOnlyWhileMounted ==
  phase = "unmounted" => ~provincesOnEarth

=============================================================================
